---- MODULE Spec2Model ----
(***************************************************************************)
(* Model of the FAT32 driver of thor-os (kernel/src/fat32.cpp).            *)
(*                                                                         *)
(* The block device is modelled at byte level: a sector is a tuple of 512  *)
(* bytes, the packed on-disk structures are read and written through the  *)
(* byte offsets of their fields, and every driver function is an operator  *)
(* that takes the machine state m (device contents, metadata cache, the    *)
(* log of sector transfers of the running operation) and returns the new   *)
(* machine state with its result.                                          *)
(*                                                                         *)
(* The environment e of one operation fixes what the code leaves open:     *)
(*   e.failAt    which sector transfer of the operation fails (0: none),   *)
(*   e.fill      the byte found in memory that was never initialised,      *)
(*   e.oob       the 28-bit value an out-of-bounds read of the FAT sector   *)
(*               buffer yields,                                            *)
(*   e.nullderef whether an access through a null pointer faults or goes   *)
(*               on ("crash" / "continue"),                                *)
(*   e.smash     what an out-of-bounds store of the FAT sector buffer hits  *)
(*               ("none" / "fat_is").                                      *)
(* The target is x86-64 (gdt.hpp): plain char is signed, size_t is 64 bit. *)
(***************************************************************************)
EXTENDS Integers, Sequences, FiniteSets, TLC

\* disk: the sectors of each device; cached_disk .. fat_is: the globals of the
\* driver; smashed: an out-of-bounds store has happened; halted: an operation
\* faulted or does not end; io: the sector transfers of the last operation;
\* last: the last call, its result and the machine state it started from;
\* nops: the number of operations so far
VARIABLES disk, cached_disk, cached_partition, partition_start, fat_bs, fat_is,
          smashed, halted, io, last, nops

vars == <<disk, cached_disk, cached_partition, partition_start, fat_bs, fat_is,
          smashed, halted, io, last, nops>>

(***************************************************************************)
(* Program constants                                                       *)
(***************************************************************************)
SectorSize == 512
FatEntrySize == 4
EntriesPerSector == 128
EntrySize == 32
EntriesPerDirSector == 16
FatIndexModulus == 512
EndOfChain == 268435448
BadCluster == 268435447
FatMask == 268435455
UnusedMark == 229
LongNameAttrib == 15
DirectoryAttrib == 16
LastLongMask == 64
ShortNameLen == 11
CharsPerSequence == 11
CharsPerLongEntry == 13
LongNamePad == 255
LongNameBufferSize == 256
Space == 32
NoCachedId == -1

(***************************************************************************)
(* Bounds of the model                                                     *)
(***************************************************************************)
\* number of sectors of the modelled device
DiskSize == 400
\* operations per behaviour
MaxOps == 1
\* creating operations per behaviour of SpecCreate
MaxCreates == 1
\* clusters a directory or file chain is followed through before the
\* traversal is taken not to terminate
MaxChain == 4

(***************************************************************************)
(* Bytes and little-endian integers                                        *)
(***************************************************************************)
\* the byte at offset off (from 0) of buffer b
At(b, off) == b[off + 1]

U16(b, off) == b[off + 1] + 256 * b[off + 2]

\* a 32-bit field as its four bytes, least significant first
U32Bytes(b, off) == <<b[off + 1], b[off + 2], b[off + 3], b[off + 4]>>

\* value & 0x0FFFFFFF of a 32-bit value given as its bytes
Low28(u) == u[1] + 256 * u[2] + 65536 * u[3] + 16777216 * (u[4] % 16)

\* a 32-bit field whose value is below 2^31, as a number
U32(b, off) == b[off + 1] + 256 * b[off + 2] + 65536 * b[off + 3] + 16777216 * b[off + 4]

\* the bytes of a number below 2^31 stored in a 32-bit field
ToU32(n) == <<n % 256, (n \div 256) % 256, (n \div 65536) % 256, (n \div 16777216) % 256>>

ToU16(n) == <<n % 256, (n \div 256) % 256>>

\* plain char is signed: the value of a byte read through a char
SignedChar(b) == IF b >= 128 THEN b - 256 ELSE b

\* static_cast<uint16_t>(char): sign extension of the byte
CharToU16(b) == IF b >= 128 THEN <<b, 255>> ELSE <<b, 0>>

\* buf with the bytes bs stored from offset off on
Splice(buf, off, bs) == SubSeq(buf, 1, off) \o bs \o SubSeq(buf, off + Len(bs) + 1, Len(buf))

ZeroSector == [k \in 1..SectorSize |-> 0]

\* Body applied to the value v: the result of a call is named once
With(v, Body(_)) == Body(v)

\* 32-bit unsigned arithmetic on the four bytes of a value
RECURSIVE U32DecFrom(_, _)
U32DecFrom(u, k) ==
    IF k > 4 THEN u
    ELSE IF u[k] > 0 THEN [u EXCEPT ![k] = @ - 1]
    ELSE U32DecFrom([u EXCEPT ![k] = 255], k + 1)

\* u - 1 modulo 2^32
U32Dec(u) == U32DecFrom(u, 1)

RECURSIVE U32MulFrom(_, _, _, _)
U32MulFrom(u, f, k, carry) ==
    IF k > 4 THEN u
    ELSE LET p == u[k] * f + carry
         IN U32MulFrom([u EXCEPT ![k] = p % 256], f, k + 1, p \div 256)

\* u * f modulo 2^32, for f below 2^16
U32Mul(u, f) == U32MulFrom(u, f, 1, 0)

(***************************************************************************)
(* The block device (collaborator: read_sectors / write_sectors)           *)
(***************************************************************************)
NullPtr == <<>>

SectorOf(dev, lba) == IF lba \in DOMAIN dev THEN dev[lba] ELSE ZeroSector

IoEvent(step, op, lba, count, ok, data) ==
    [step |-> step, op |-> op, lba |-> lba, count |-> count, ok |-> ok, data |-> data]

\* the transfer about to be issued is the one that fails, or leaves the device
IoFails(m, e, lba, count) ==
    \/ Len(m.io) + 1 = e.failAt
    \/ lba < 0
    \/ lba + count > DiskSize

\* the contents of count sectors from lba on
RECURSIVE SectorsOf(_, _, _)
SectorsOf(dev, lba, count) ==
    IF count = 0 THEN <<>> ELSE SectorOf(dev, lba) \o SectorsOf(dev, lba + 1, count - 1)

read_sectors(m, e, d, lba, count, step) ==
    LET ok == ~IoFails(m, e, lba, count)
        data == IF ok THEN SectorsOf(m.disk[d], lba, count) ELSE <<>>
    IN [ok |-> ok, data |-> data,
        m |-> [m EXCEPT !.io = Append(@, IoEvent(step, "read", lba, count, ok, <<>>))]]

write_sectors(m, e, d, lba, count, data, step) ==
    LET ok == ~IoFails(m, e, lba, count)
        dev == m.disk[d]
        written == [l \in (DOMAIN dev) \cup (lba..(lba + count - 1)) |->
                      IF l >= lba /\ l < lba + count
                      THEN SubSeq(data, (l - lba) * SectorSize + 1, (l - lba + 1) * SectorSize)
                      ELSE dev[l]]
    IN [ok |-> ok,
        m |-> [m EXCEPT !.io = Append(@, IoEvent(step, "write", lba, count, ok, data)),
                        !.disk = IF ok THEN [@ EXCEPT ![d] = written] ELSE @]]

(***************************************************************************)
(* Fields of the packed structures                                         *)
(***************************************************************************)
bs_sectors_per_cluster(bs) == At(bs, 13)
bs_reserved_sectors(bs) == U16(bs, 14)
bs_number_of_fat(bs) == At(bs, 16)
bs_sectors_per_fat(bs) == U16(bs, 22)
bs_sectors_per_fat_long(bs) == U32(bs, 36)
bs_root_directory_cluster_start(bs) == U32(bs, 44)
bs_fs_information_sector(bs) == U16(bs, 48)

FreeClustersOffset == 488
is_free_clusters(fsi) == U32Bytes(fsi, FreeClustersOffset)

\* entry number i (from 0) of a directory cluster buffer
EntryAt(buf, i) == SubSeq(buf, EntrySize * i + 1, EntrySize * (i + 1))
NumEntries(buf) == Len(buf) \div EntrySize
entry_name0(buf, i) == buf[EntrySize * i + 1]
entry_attrib(ent) == At(ent, 11)
entry_cluster_high(ent) == U16(ent, 20)
entry_cluster_low(ent) == U16(ent, 26)
entry_file_size(ent) == U32(ent, 28)
l_sequence_number(ent) == At(ent, 0)
l_name_first(ent, j) == <<At(ent, 1 + 2 * j), At(ent, 2 + 2 * j)>>
l_name_second(ent, j) == <<At(ent, 14 + 2 * j), At(ent, 15 + 2 * j)>>
l_name_third(ent, j) == <<At(ent, 28 + 2 * j), At(ent, 29 + 2 * j)>>

(***************************************************************************)
(* Metadata cache                                                          *)
(***************************************************************************)
cache_bs(m, e, d, p) ==
    With(read_sectors(m, e, d, p.start, 1, "bs"), LAMBDA r :
        [r.m EXCEPT !.fat_bs = IF r.ok THEN r.data ELSE NullPtr])

\* fat_bs is dereferenced without a check: with a null fat_bs the field is
\* read from address 48, which either faults or yields what lies there
cache_is(m, e, d, p) ==
    IF m.fat_bs = NullPtr /\ e.nullderef = "crash"
    THEN [m EXCEPT !.halted = TRUE]
    ELSE With(read_sectors(m, e, d,
                           p.start + (IF m.fat_bs = NullPtr THEN e.fill + 256 * e.fill
                                      ELSE bs_fs_information_sector(m.fat_bs)),
                           1, "fsi"), LAMBDA r :
             [r.m EXCEPT !.fat_is = IF r.ok THEN r.data ELSE NullPtr])

\* cache_disk_partition reloading only when both identifiers differ
cache_disk_partition_both_differ(m, e, d, p) ==
    IF m.cached_disk # d /\ m.cached_partition # p.uuid
    THEN With(cache_is(cache_bs([m EXCEPT !.partition_start = p.start], e, d, p), e, d, p),
              LAMBDA m1 :
             IF m1.halted THEN [ok |-> FALSE, m |-> m1]
             ELSE [ok |-> m1.fat_bs # NullPtr /\ m1.fat_is # NullPtr,
                   m |-> [m1 EXCEPT !.cached_disk = d, !.cached_partition = p.uuid]])
    ELSE [ok |-> m.fat_bs # NullPtr /\ m.fat_is # NullPtr, m |-> m]

cache_disk_partition(m, e, d, p) ==
    IF m.cached_disk # d \/ m.cached_partition # p.uuid
    THEN With(cache_is(cache_bs([m EXCEPT !.partition_start = p.start], e, d, p), e, d, p),
              LAMBDA m1 :
             IF m1.halted THEN [ok |-> FALSE, m |-> m1]
             ELSE [ok |-> m1.fat_bs # NullPtr /\ m1.fat_is # NullPtr,
                   m |-> [m1 EXCEPT !.cached_disk = d, !.cached_partition = p.uuid]])
    ELSE [ok |-> m.fat_bs # NullPtr /\ m.fat_is # NullPtr, m |-> m]

\* write_is with its result ignored: the write is issued and reported as done
write_is_reports_success(m, e, d, p) ==
    [ok |-> TRUE,
     m |-> write_sectors(m, e, d, p.start + bs_fs_information_sector(m.fat_bs), 1, m.fat_is,
                         "fsi_write").m]

write_is(m, e, d, p) ==
    write_sectors(m, e, d, p.start + bs_fs_information_sector(m.fat_bs), 1, m.fat_is, "fsi_write")

(***************************************************************************)
(* FAT table access                                                        *)
(***************************************************************************)
fat_begin(m) == m.partition_start + bs_reserved_sectors(m.fat_bs)

cluster_lba(m, cluster) ==
    LET cluster_begin == fat_begin(m)
                         + bs_number_of_fat(m.fat_bs) * bs_sectors_per_fat_long(m.fat_bs)
    IN cluster_begin + (cluster - 2) * bs_sectors_per_cluster(m.fat_bs)

\* the index into the FAT sector buffer
fat_entry_offset(cluster) == cluster % FatIndexModulus

\* the FAT sector buffer holds 128 entries; the index is cluster % 512, and an
\* index of 128 or more reads past the buffer
read_fat_value(m, e, d, cluster, step) ==
    With(read_sectors(m, e, d, fat_begin(m) + (cluster * FatEntrySize) \div SectorSize, 1, step),
         LAMBDA r :
        [val |-> IF ~r.ok THEN 0
                 ELSE IF fat_entry_offset(cluster) < EntriesPerSector
                      THEN Low28(U32Bytes(r.data, FatEntrySize * fat_entry_offset(cluster)))
                      ELSE e.oob,
         m |-> r.m])

\* what the store of an index of 128 or more does to the machine: it lands in
\* another heap object, here possibly the cached FS information sector
stored_out_of_bounds(m, e, value) ==
    [m EXCEPT !.smashed = TRUE,
              !.fat_is = IF e.smash = "fat_is" /\ @ # NullPtr
                         THEN Splice(@, FreeClustersOffset, value) ELSE @]

\* an index of 128 or more stores past the buffer: the sector is written back
\* as it was read
write_fat_value(m, e, d, cluster, value) ==
    With(read_sectors(m, e, d, fat_begin(m) + (cluster * FatEntrySize) \div SectorSize, 1,
                      "fat_read"), LAMBDA r :
        IF ~r.ok THEN [ok |-> FALSE, m |-> r.m]
        ELSE IF fat_entry_offset(cluster) < EntriesPerSector
             THEN write_sectors(r.m, e, d,
                                fat_begin(m) + (cluster * FatEntrySize) \div SectorSize, 1,
                                Splice(r.data, FatEntrySize * fat_entry_offset(cluster), value),
                                "fat_write")
        ELSE write_sectors(stored_out_of_bounds(r.m, e, value), e, d,
                           fat_begin(m) + (cluster * FatEntrySize) \div SectorSize, 1,
                           r.data, "fat_write"))

next_cluster(m, e, d, cluster) ==
    With(read_fat_value(m, e, d, cluster, "fat_next"), LAMBDA r :
        [val |-> IF r.val >= EndOfChain THEN 0 ELSE r.val, m |-> r.m])

fat_size(m) == bs_sectors_per_fat_long(m.fat_bs) + bs_sectors_per_fat(m.fat_bs)

\* the inner loop of find_free_cluster over the entries lo..hi of sector j of
\* the scan: the first index whose entry is free, or 128 (the halves of the
\* range are searched in order)
RECURSIVE FirstFreeInSector(_, _, _, _)
FirstFreeInSector(fat_table, j, lo, hi) ==
    IF lo = hi
    THEN IF ~(j = 0 /\ lo < 2) /\ Low28(U32Bytes(fat_table, FatEntrySize * lo)) = 0
         THEN lo ELSE EntriesPerSector
    ELSE LET mid == (lo + hi) \div 2
             left == FirstFreeInSector(fat_table, j, lo, mid)
         IN IF left < EntriesPerSector THEN left
            ELSE FirstFreeInSector(fat_table, j, mid + 1, hi)

RECURSIVE find_free_cluster_from(_, _, _, _)
find_free_cluster_from(m, e, d, j) ==
    IF j >= fat_size(m) THEN [val |-> 0, m |-> m]
    ELSE With(read_sectors(m, e, d, fat_begin(m) + j * bs_sectors_per_cluster(m.fat_bs), 1,
                           "fat_scan"), LAMBDA r :
         IF ~r.ok THEN [val |-> 0, m |-> r.m]
         ELSE With(FirstFreeInSector(r.data, j, 0, EntriesPerSector - 1), LAMBDA i :
              IF i < EntriesPerSector THEN [val |-> i + j * EntriesPerSector, m |-> r.m]
              ELSE find_free_cluster_from(r.m, e, d, j + 1)))

find_free_cluster(m, e, d) == find_free_cluster_from(m, e, d, 0)

(***************************************************************************)
(* Directory engine: listing                                               *)
(***************************************************************************)
\* char name[0] compared with the int 0xE5: a signed char never equals 229
entry_unused(buf, i) == SignedChar(entry_name0(buf, i)) = UnusedMark

entry_used(buf, i) == SignedChar(entry_name0(buf, i)) # UnusedMark

end_of_directory(buf, i) == entry_name0(buf, i) = 0

is_long_name(ent) == entry_attrib(ent) = LongNameAttrib

\* the 13 code units of a long entry in field order
LongUnits(ent) ==
    [t \in 1..CharsPerLongEntry |->
        IF t <= 5 THEN l_name_first(ent, t - 1)
        ELSE IF t <= 11 THEN l_name_second(ent, t - 6)
        ELSE l_name_third(ent, t - 12)]

UnitEnds(u) == u = <<0, 0>> \/ u = <<LongNamePad, 0>>

\* number of code units copied before the first terminating one
RECURSIVE UnitsCopied(_, _)
UnitsCopied(units, t) ==
    IF t > Len(units) \/ UnitEnds(units[t]) THEN t - 1 ELSE UnitsCopied(units, t + 1)

\* the state of the listing loop: the records so far, the long name being
\* accumulated (long_name, long_name_buffer, i) and the exits taken.
\* long_name_buffer is the memory around the 256-byte stack buffer, indexed
\* from the buffer's start; what was never written holds e.fill.  i is -1
\* when the size_t it stands for has wrapped around.
ListingStart ==
    [files |-> <<>>, long_name |-> FALSE, buffer |-> <<>>, i |-> 0,
     end_reached |-> FALSE, smashed |-> FALSE, halted |-> FALSE]

BufferByte(st, e, s) == IF s \in DOMAIN st.buffer THEN st.buffer[s] ELSE e.fill

\* a long entry: its code units are copied to long_name_buffer from
\* ((sequence_number & ~0x40) - 1) * 13 on
LongEntryStep(st, ent) ==
    LET seq == l_sequence_number(ent)
        plain == IF (seq \div LastLongMask) % 2 = 1 THEN seq - LastLongMask ELSE seq
        l0 == (plain - 1) * CharsPerLongEntry
        units == LongUnits(ent)
        n == UnitsCopied(units, 1)
        l == l0 + n
        stored == [s \in (DOMAIN st.buffer) \cup (l0..(l - 1)) |->
                      IF s >= l0 /\ s < l THEN units[s - l0 + 1][1] ELSE st.buffer[s]]
    IN [st EXCEPT !.long_name = TRUE,
                  !.buffer = stored,
                  !.i = IF st.i < 0 \/ l < 0 THEN -1 ELSE IF l > st.i THEN l ELSE st.i,
                  !.smashed = @ \/ (n > 0 /\ (l0 < 0 \/ l > LongNameBufferSize))]

\* the name of a short entry: its name field up to the first space
RECURSIVE ShortName(_, _)
ShortName(ent, s) ==
    IF s >= ShortNameLen \/ At(ent, s) = Space THEN <<>>
    ELSE <<At(ent, s)>> \o ShortName(ent, s + 1)

BitSet(byte, bit) == (byte \div bit) % 2 = 1

\* a short entry: one record is emitted
ShortEntryStep(st, e, ent, spc) ==
    LET name == IF st.long_name THEN [s \in 1..st.i |-> BufferByte(st, e, s - 1)]
                ELSE ShortName(ent, 0)
        directory == BitSet(entry_attrib(ent), 16)
        file == [file_name |-> name,
                 hidden |-> BitSet(entry_attrib(ent), 1),
                 system |-> BitSet(entry_attrib(ent), 2),
                 directory |-> directory,
                 size |-> IF directory THEN spc * SectorSize ELSE entry_file_size(ent),
                 location |-> entry_cluster_low(ent) + entry_cluster_high(ent) * 65536]
    IN IF st.long_name /\ st.i < 0
       THEN [st EXCEPT !.halted = TRUE]
       ELSE [st EXCEPT !.files = Append(@, file),
                       !.long_name = FALSE,
                       !.i = IF st.long_name THEN 0 ELSE @]

\* the loop over the entries of one cluster, from entry k on
RECURSIVE files_scan(_, _, _, _, _)
files_scan(st, e, cluster, k, spc) ==
    IF k >= NumEntries(cluster) \/ st.halted THEN st
    ELSE IF end_of_directory(cluster, k) THEN [st EXCEPT !.end_reached = TRUE]
    ELSE IF ~entry_used(cluster, k) THEN files_scan(st, e, cluster, k + 1, spc)
    ELSE IF is_long_name(EntryAt(cluster, k))
         THEN files_scan(LongEntryStep(st, EntryAt(cluster, k)), e, cluster, k + 1, spc)
    ELSE files_scan(ShortEntryStep(st, e, EntryAt(cluster, k), spc), e, cluster, k + 1, spc)

Listed(st, m) ==
    [val |-> st.files, m |-> [m EXCEPT !.smashed = @ \/ st.smashed, !.halted = @ \/ st.halted]]

\* the loop over the clusters of the chain; a chain longer than MaxChain
\* clusters stands for a traversal that does not end
RECURSIVE files_chain(_, _, _, _, _, _)
files_chain(m, e, d, cluster_number, st, fuel) ==
    IF fuel = 0 THEN Listed([st EXCEPT !.halted = TRUE], m)
    ELSE With(read_sectors(m, e, d, cluster_lba(m, cluster_number),
                           bs_sectors_per_cluster(m.fat_bs), "dir_read"), LAMBDA r :
         IF ~r.ok THEN Listed(st, r.m)
         ELSE With(files_scan(st, e, r.data, 0, bs_sectors_per_cluster(m.fat_bs)), LAMBDA st1 :
              IF st1.end_reached \/ st1.halted THEN Listed(st1, r.m)
              ELSE With(next_cluster(r.m, e, d, cluster_number), LAMBDA nc :
                   IF nc.val = 0 \/ nc.val = BadCluster THEN Listed(st1, nc.m)
                   ELSE files_chain(nc.m, e, d, nc.val, st1, fuel - 1))))

\* files(disk, cluster_number)
files(m, e, d, cluster_number) == files_chain(m, e, d, cluster_number, ListingStart, MaxChain)

(***************************************************************************)
(* Directory engine: path resolution                                       *)
(***************************************************************************)
\* the first entry of the listing with the segment's name, of either kind
RECURSIVE FirstMatch_any_kind(_, _, _, _)
FirstMatch_any_kind(entries, p, tail, k) ==
    IF k > Len(entries) THEN 0
    ELSE IF entries[k].file_name = p THEN k
    ELSE FirstMatch_any_kind(entries, p, tail, k + 1)

\* the first entry of the listing that the segment matches, or 0
RECURSIVE FirstMatch(_, _, _, _)
FirstMatch(entries, p, tail, k) ==
    IF k > Len(entries) THEN 0
    ELSE IF (tail \/ entries[k].directory) /\ entries[k].file_name = p THEN k
    ELSE FirstMatch(entries, p, tail, k + 1)

RECURSIVE find_cluster_number_from(_, _, _, _, _, _)
find_cluster_number_from(m, e, d, path, i, cluster_number) ==
    IF i > Len(path) THEN [found |-> FALSE, val |-> 0, m |-> m]
    ELSE With(files(m, e, d, cluster_number), LAMBDA entries :
         With(FirstMatch(entries.val, path[i], i = Len(path), 1), LAMBDA k :
         IF entries.m.halted \/ k = 0 THEN [found |-> FALSE, val |-> 0, m |-> entries.m]
         ELSE IF i = Len(path)
              THEN [found |-> TRUE, val |-> entries.val[k].location, m |-> entries.m]
         ELSE find_cluster_number_from(entries.m, e, d, path, i + 1, entries.val[k].location)))

find_cluster_number(m, e, d, path) ==
    IF path = <<>>
    THEN [found |-> TRUE, val |-> bs_root_directory_cluster_start(m.fat_bs), m |-> m]
    ELSE find_cluster_number_from(m, e, d, path, 1, bs_root_directory_cluster_start(m.fat_bs))

\* files(disk, path)
files_path(m, e, d, path) ==
    With(find_cluster_number(m, e, d, path), LAMBDA s :
        IF s.m.halted \/ ~s.found THEN [val |-> <<>>, m |-> s.m]
        ELSE files(s.m, e, d, s.val))

(***************************************************************************)
(* Directory engine: free-slot allocation                                  *)
(***************************************************************************)
\* name.size() is at least 1 for every name of the model
number_of_entries(name) == (Len(name) - 1) \div CharsPerSequence + 2

NullEntry == -1

EntryFree(buf, i) == end_of_directory(buf, i) \/ entry_unused(buf, i)

\* 1. the first end of directory marker, or NullEntry
RECURSIVE FirstEnd(_, _)
FirstEnd(buf, i) ==
    IF i >= NumEntries(buf) THEN NullEntry
    ELSE IF end_of_directory(buf, i) THEN i
    ELSE FirstEnd(buf, i + 1)

\* the last slot of the first run of `entries` free slots, or NullEntry
RECURSIVE SequenceEnd(_, _, _, _)
SequenceEnd(buf, entries, i, sequence_size) ==
    IF i >= NumEntries(buf) THEN NullEntry
    ELSE IF EntryFree(buf, i)
         THEN IF sequence_size + 1 = entries THEN i
              ELSE SequenceEnd(buf, entries, i + 1, sequence_size + 1)
    ELSE SequenceEnd(buf, entries, i + 1, 0)

\* the backward loop from the last slot: the lowest slot above sequence_end
\* from which every slot to the end of the cluster is free
RECURSIVE NewEnd(_, _, _, _)
NewEnd(buf, i, sequence_end, new_end) ==
    IF i <= 0 \/ i <= sequence_end THEN new_end
    ELSE IF EntryFree(buf, i) THEN NewEnd(buf, i - 1, sequence_end, i)
    ELSE new_end

\* the result is the index of the first slot of the run (NullEntry for
\* nullptr) and the buffer with the end marker moved
find_free_entry(directory_cluster, entries) ==
    LET end == FirstEnd(directory_cluster, 0)
        sequence_end == SequenceEnd(directory_cluster, entries, 0, 0)
        sequence_start == sequence_end - (entries - 1)
        new_end == NewEnd(directory_cluster, NumEntries(directory_cluster) - 1, sequence_end, -1)
    IN IF end = NullEntry THEN [ptr |-> NullEntry, buf |-> directory_cluster]
       ELSE IF sequence_end = NullEntry THEN [ptr |-> NullEntry, buf |-> directory_cluster]
       ELSE IF end <= sequence_end
            THEN IF new_end < 0 THEN [ptr |-> NullEntry, buf |-> directory_cluster]
                 ELSE [ptr |-> sequence_start,
                       buf |-> [[directory_cluster EXCEPT ![EntrySize * end + 1] = UnusedMark]
                                    EXCEPT ![EntrySize * new_end + 1] = 0]]
       ELSE [ptr |-> sequence_start, buf |-> directory_cluster]

(***************************************************************************)
(* Entry initialisation                                                    *)
(***************************************************************************)
\* the value a char holds after an int is stored to it
ToChar(n) == SignedChar(n % 256)

\* the checksum loop of init_entry, sum being a (signed) char
RECURSIVE alias_checksum(_, _, _)
alias_checksum(name, c, sum) ==
    IF c >= ShortNameLen THEN sum % 256
    ELSE LET v == IF c < Len(name) THEN SignedChar(name[c + 1]) ELSE Space
         IN alias_checksum(name, c + 1,
                ToChar((IF sum % 2 = 1 THEN 128 ELSE 0) + (sum \div 2) + v))

\* code unit number t (from 0) of the long entries of a name
NameUnit(name, t) == IF t < Len(name) THEN CharToU16(name[t + 1]) ELSE <<LongNamePad, 0>>

RECURSIVE UnitBytes(_, _, _)
UnitBytes(name, from, count) ==
    IF count = 0 THEN <<>> ELSE NameUnit(name, from) \o UnitBytes(name, from + 1, count - 1)

\* the long entry of sequence number sequence + 1
LongEntry(name, sequence, sequences) ==
    LET i == sequence * CharsPerLongEntry
    IN <<IF sequence = sequences - 1 THEN (sequence + 1) + LastLongMask ELSE sequence + 1>>
       \o UnitBytes(name, i, 5)
       \o <<LongNameAttrib, 0, alias_checksum(name, 0, 0)>>
       \o UnitBytes(name, i + 5, 6)
       \o <<0, 0>>
       \o UnitBytes(name, i + 11, 2)

RECURSIVE LongEntries(_, _, _)
LongEntries(name, sequence, sequences) ==
    IF sequence >= sequences THEN <<>>
    ELSE LongEntry(name, sequence, sequences) \o LongEntries(name, sequence + 1, sequences)

\* the short entry; the attribute byte is left as it was
ShortEntry(name, cluster, attrib) ==
    [k \in 1..ShortNameLen |-> IF k <= Len(name) THEN name[k] ELSE Space]
    \o <<attrib, 0, 0>> \o <<0, 0, 0, 0, 0, 0>>
    \o ToU16(cluster \div 65536) \o <<0, 0, 0, 0>>
    \o ToU16(cluster % 65536) \o <<0, 0, 0, 0>>

\* init_entry<Long>: the buffer and the slot of the short entry
init_entry(long, buf, entry_ptr, name, cluster) ==
    LET sequences == IF long THEN (Len(name) - 1) \div CharsPerSequence + 1 ELSE 0
        short == entry_ptr + sequences
        bytes == LongEntries(name, 0, sequences)
                 \o ShortEntry(name, cluster, At(buf, EntrySize * short + ShortNameLen))
    IN [buf |-> Splice(buf, EntrySize * entry_ptr, bytes), ptr |-> short]

init_directory_entry(long, buf, entry_ptr, name, cluster) ==
    LET r == init_entry(long, buf, entry_ptr, name, cluster)
    IN [r.buf EXCEPT ![EntrySize * r.ptr + ShortNameLen + 1] = DirectoryAttrib]

init_file_entry(long, buf, entry_ptr, name, cluster) ==
    LET r == init_entry(long, buf, entry_ptr, name, cluster)
    IN [r.buf EXCEPT ![EntrySize * r.ptr + ShortNameLen + 1] = 0]

(***************************************************************************)
(* High-level operations.  Each yields the machine state after the call    *)
(* and the value returned; alloc and parent record the cluster the         *)
(* allocator returned and the parent's cluster (0 when not reached).       *)
(***************************************************************************)
ZeroExtend64(u) == u \o <<0, 0, 0, 0>>

\* free_clusters * sectors_per_cluster * 512 is a 32-bit product
free_size(m, e, d, p) ==
    With(cache_disk_partition(m, e, d, p), LAMBDA c :
        [m |-> c.m,
         ret |-> IF ~c.ok THEN ZeroExtend64(ToU32(0))
                 ELSE ZeroExtend64(U32Mul(U32Mul(is_free_clusters(c.m.fat_is),
                                                 bs_sectors_per_cluster(c.m.fat_bs)),
                                          SectorSize))])

ls(m, e, d, p, path) ==
    With(cache_disk_partition(m, e, d, p), LAMBDA c :
        IF ~c.ok THEN [m |-> c.m, ret |-> <<>>]
        ELSE With(files_path(c.m, e, d, path), LAMBDA r : [m |-> r.m, ret |-> r.val]))

\* the first record of the listing with the given name, or 0
RECURSIVE FirstNamed(_, _, _)
FirstNamed(all_files, file, k) ==
    IF k > Len(all_files) THEN 0
    ELSE IF all_files[k].file_name = file THEN k
    ELSE FirstNamed(all_files, file, k + 1)

\* the loop of read_file: `content` holds the bytes copied so far
RECURSIVE read_file_loop(_, _, _, _, _, _)
read_file_loop(m, e, d, cluster_number, file_size, content) ==
    With(read_sectors(m, e, d, cluster_lba(m, cluster_number),
                      bs_sectors_per_cluster(m.fat_bs), "data_read"), LAMBDA r :
    IF ~r.ok THEN [m |-> r.m, ret |-> content]
    ELSE With(content \o SubSeq(r.data, 1,
                                IF file_size - Len(content) < Len(r.data)
                                THEN file_size - Len(content) ELSE Len(r.data)),
              LAMBDA content1 :
         IF Len(content1) >= file_size THEN [m |-> r.m, ret |-> content1]
         ELSE With(next_cluster(r.m, e, d, cluster_number), LAMBDA nc :
              IF nc.val = 0 \/ nc.val = BadCluster THEN [m |-> nc.m, ret |-> content1]
              ELSE read_file_loop(nc.m, e, d, nc.val, file_size, content1))))

read_file(m, e, d, p, path, file) ==
    With(cache_disk_partition(m, e, d, p), LAMBDA c :
    IF ~c.ok THEN [m |-> c.m, ret |-> <<>>]
    ELSE With(files_path(c.m, e, d, path), LAMBDA all_files :
         With(FirstNamed(all_files.val, file, 1), LAMBDA k :
         IF all_files.m.halted \/ k = 0 THEN [m |-> all_files.m, ret |-> <<>>]
         ELSE IF all_files.val[k].size = 0 THEN [m |-> all_files.m, ret |-> <<>>]
         ELSE read_file_loop(all_files.m, e, d, all_files.val[k].location,
                             all_files.val[k].size, <<>>))))

Created(m, ret, alloc, parent) == [m |-> m, ret |-> ret, alloc |-> alloc, parent |-> parent]

\* count slots of uninitialised memory with name[0] set to mark
RECURSIVE Marked(_, _, _)
Marked(raw, mark, count) ==
    IF count <= 0 THEN <<>> ELSE [raw EXCEPT ![1] = mark] \o Marked(raw, mark, count - 1)

\* the fresh directory cluster of mkdir: "." and "..", every other slot but
\* the last marked 0xE5 in name[0] and the last marked 0; the buffer is not
\* initialised, so every byte that is not stored holds e.fill
NewDirectoryCluster(m, e, cluster, parent) ==
    LET size == EntriesPerDirSector * bs_sectors_per_cluster(m.fat_bs)
        raw == [k \in 1..EntrySize |-> e.fill]
        dot == init_directory_entry(FALSE, raw \o raw, 0, <<46>>, cluster)
        dot_dot == init_directory_entry(FALSE, dot, 1, <<46, 46>>, parent)
    IN dot_dot \o Marked(raw, UnusedMark, size - 3) \o Marked(raw, 0, 1)

\* --free_clusters in the cached FS information sector
decrement_free_clusters(m) ==
    [m EXCEPT !.fat_is = Splice(@, FreeClustersOffset, U32Dec(is_free_clusters(@)))]

\* the steps of mkdir_finish with the FS information sector written first
mkdir_finish_fsi_first(m, e, d, p, cluster, parent) ==
    With(write_is(decrement_free_clusters(m), e, d, p), LAMBDA fsi :
    IF ~fsi.ok THEN Created(fsi.m, FALSE, cluster, parent)
    ELSE With(write_fat_value(fsi.m, e, d, cluster, ToU32(EndOfChain)), LAMBDA fat :
         IF ~fat.ok THEN Created(fat.m, FALSE, cluster, parent)
         ELSE With(write_sectors(fat.m, e, d, cluster_lba(fat.m, cluster),
                                 bs_sectors_per_cluster(fat.m.fat_bs),
                                 NewDirectoryCluster(fat.m, e, cluster, parent),
                                 "newdir_write"), LAMBDA new :
              Created(new.m, new.ok, cluster, parent))))

\* the steps of mkdir after the parent directory cluster was written back
mkdir_finish(m, e, d, p, cluster, parent) ==
    With(write_fat_value(m, e, d, cluster, ToU32(EndOfChain)), LAMBDA fat :
    IF ~fat.ok THEN Created(fat.m, FALSE, cluster, parent)
    ELSE With(write_is(decrement_free_clusters(fat.m), e, d, p), LAMBDA fsi :
         IF ~fsi.ok THEN Created(fsi.m, FALSE, cluster, parent)
         ELSE With(write_sectors(fsi.m, e, d, cluster_lba(fsi.m, cluster),
                                 bs_sectors_per_cluster(fsi.m.fat_bs),
                                 NewDirectoryCluster(fsi.m, e, cluster, parent),
                                 "newdir_write"), LAMBDA new :
              Created(new.m, new.ok, cluster, parent))))

\* the steps of touch after the parent directory cluster was written back
touch_finish(m, e, d, p, cluster, parent) ==
    With(write_fat_value(m, e, d, cluster, ToU32(EndOfChain)), LAMBDA fat :
    IF ~fat.ok THEN Created(fat.m, FALSE, cluster, parent)
    ELSE With(write_is(decrement_free_clusters(fat.m), e, d, p), LAMBDA fsi :
         Created(fsi.m, fsi.ok, cluster, parent)))

\* the result of find_free_entry is used without a check: with nullptr the
\* entry is initialised through a null pointer, which faults or stores outside
\* the buffer
mkdir(m, e, d, p, path, directory) ==
    With(cache_disk_partition(m, e, d, p), LAMBDA c :
    IF ~c.ok THEN Created(c.m, FALSE, 0, 0)
    ELSE With(find_cluster_number(c.m, e, d, path), LAMBDA cluster_number :
    IF cluster_number.m.halted \/ ~cluster_number.found
    THEN Created(cluster_number.m, FALSE, 0, 0)
    ELSE With(find_free_cluster(cluster_number.m, e, d), LAMBDA cluster :
    IF cluster.val = 0 THEN Created(cluster.m, FALSE, 0, cluster_number.val)
    ELSE With(read_sectors(cluster.m, e, d, cluster_lba(cluster.m, cluster_number.val),
                           bs_sectors_per_cluster(cluster.m.fat_bs), "parent_read"), LAMBDA rd :
    IF ~rd.ok THEN Created(rd.m, FALSE, cluster.val, cluster_number.val)
    ELSE With(find_free_entry(rd.data, number_of_entries(directory)), LAMBDA slot :
    IF slot.ptr = NullEntry /\ e.nullderef = "crash"
    THEN Created([rd.m EXCEPT !.halted = TRUE], FALSE, cluster.val, cluster_number.val)
    ELSE With(write_sectors(rd.m, e, d, cluster_lba(rd.m, cluster_number.val),
                            bs_sectors_per_cluster(rd.m.fat_bs),
                            IF slot.ptr = NullEntry THEN slot.buf
                            ELSE init_directory_entry(TRUE, slot.buf, slot.ptr, directory, cluster.val),
                            "parent_write"), LAMBDA wr :
    IF ~wr.ok THEN Created(wr.m, FALSE, cluster.val, cluster_number.val)
    ELSE mkdir_finish(wr.m, e, d, p, cluster.val, cluster_number.val)))))))

touch(m, e, d, p, path, file) ==
    With(cache_disk_partition(m, e, d, p), LAMBDA c :
    IF ~c.ok THEN Created(c.m, FALSE, 0, 0)
    ELSE With(find_cluster_number(c.m, e, d, path), LAMBDA cluster_number :
    IF cluster_number.m.halted \/ ~cluster_number.found
    THEN Created(cluster_number.m, FALSE, 0, 0)
    ELSE With(find_free_cluster(cluster_number.m, e, d), LAMBDA cluster :
    IF cluster.val = 0 THEN Created(cluster.m, FALSE, 0, cluster_number.val)
    ELSE With(read_sectors(cluster.m, e, d, cluster_lba(cluster.m, cluster_number.val),
                           bs_sectors_per_cluster(cluster.m.fat_bs), "parent_read"), LAMBDA rd :
    IF ~rd.ok THEN Created(rd.m, FALSE, cluster.val, cluster_number.val)
    ELSE With(find_free_entry(rd.data, number_of_entries(file)), LAMBDA slot :
    IF slot.ptr = NullEntry /\ e.nullderef = "crash"
    THEN Created([rd.m EXCEPT !.halted = TRUE], FALSE, cluster.val, cluster_number.val)
    ELSE With(write_sectors(rd.m, e, d, cluster_lba(rd.m, cluster_number.val),
                            bs_sectors_per_cluster(rd.m.fat_bs),
                            IF slot.ptr = NullEntry THEN slot.buf
                            ELSE init_file_entry(TRUE, slot.buf, slot.ptr, file, cluster.val),
                            "parent_write"), LAMBDA wr :
    IF ~wr.ok THEN Created(wr.m, FALSE, cluster.val, cluster_number.val)
    ELSE touch_finish(wr.m, e, d, p, cluster.val, cluster_number.val)))))))

(***************************************************************************)
(* Volumes the driver is started on.  One device, one partition at LBA 0:  *)
(* boot sector at 0, FS information sector at 1, one FAT of two sectors at *)
(* 2 and 3 (256 entries), one sector per cluster, cluster c at LBA 2 + c,  *)
(* root directory at cluster 2.                                            *)
(***************************************************************************)
TheDisk == 1

Partitions == {[uuid |-> 1, start |-> 0]}

BootSector(spc, reserved, nfat, spf, spf_long, root, fsinfo) ==
    Splice(Splice(Splice(Splice(Splice(Splice(
        ZeroSector, 11, ToU16(SectorSize) \o <<spc>> \o ToU16(reserved) \o <<nfat>>),
        22, ToU16(spf)), 36, ToU32(spf_long)), 44, ToU32(root)), 48, ToU16(fsinfo)),
        510, <<85, 170>>)

FsiSector(free) == Splice(ZeroSector, FreeClustersOffset, free)

\* sector j of a FAT given as a function from the clusters to their values
FatSector(fat, j) ==
    [k \in 1..SectorSize |->
        ToU32(fat[j * EntriesPerSector + (k - 1) \div FatEntrySize])[((k - 1) % FatEntrySize) + 1]]

\* a data cluster of a file: every byte is the cluster's number
DataSector(c) == [k \in 1..SectorSize |-> c % 256]

\* a directory sector holding the given 32-byte entries from slot 0 on
DirSector(entries) == Splice(ZeroSector, 0, entries)

\* the short entry of a file with contents, as another driver leaves it
\* (attribute byte 0x20, file size set)
FileEntry(name, cluster, size) == SubSeq(ShortEntry(name, cluster, 32), 1, 28) \o ToU32(size)

Name_a == <<97>>
Name_f == <<102>>
Name_g == <<103>>
Name_12 == <<97, 98, 99, 100, 101, 102, 103, 104, 105, 106, 107, 108>>

Volume(free, fat, clusters) ==
    (0 :> BootSector(1, 2, 1, 0, 2, 2, 1)) @@ (1 :> FsiSector(free))
    @@ (2 :> FatSector(fat, 0)) @@ (3 :> FatSector(fat, 1))
    @@ [l \in {2 + c : c \in DOMAIN clusters} |-> clusters[l - 2]]

FatOf(used) == [c \in 0..(2 * EntriesPerSector - 1) |-> IF c \in DOMAIN used THEN used[c] ELSE 0]

ReservedFat == (0 :> EndOfChain) @@ (1 :> FatMask)

\* freshly formatted: an empty root directory
FreshVolume(free) == Volume(free, FatOf(ReservedFat @@ (2 :> EndOfChain)), (2 :> ZeroSector))

\* a file f of 1100 bytes whose chain 3 -> 4 ends in the bad-cluster value
SmallVolume ==
    Volume(ToU32(100),
           FatOf(ReservedFat @@ (2 :> EndOfChain) @@ (3 :> 4) @@ (4 :> BadCluster)),
           (2 :> DirSector(FileEntry(Name_f, 3, 1100)))
           @@ (3 :> DataSector(3)) @@ (4 :> DataSector(4)) @@ (5 :> DataSector(5)))

\* clusters 3 .. 129 are in use, so the first free cluster is 130: the file f
\* of 1000 bytes has the chain 3 -> 4, the file g of 600 bytes the chain
\* 128 -> 129
BigVolume ==
    Volume(ToU32(100),
           FatOf(ReservedFat @@ [c \in 2..129 |-> IF c = 3 THEN 4 ELSE IF c = 128 THEN 129
                                                  ELSE EndOfChain]),
           (2 :> DirSector(FileEntry(Name_f, 3, 1000) \o FileEntry(Name_g, 128, 600)))
           @@ (3 :> DataSector(3)) @@ (4 :> DataSector(4)) @@ (5 :> DataSector(5))
           @@ (128 :> DataSector(128)) @@ (129 :> DataSector(129)))

RECURSIVE EmptyFiles(_)
EmptyFiles(n) == IF n = 0 THEN <<>> ELSE EmptyFiles(n - 1) \o FileEntry(<<101, 64 + n>>, 0, 0)

\* a root directory of two clusters 2 -> 3: cluster 2 is full (16 entries, no
\* end marker), cluster 3 holds the directory entry a (cluster 4) and the end
ChainedVolume ==
    Volume(ToU32(100),
           FatOf(ReservedFat @@ (2 :> 3) @@ (3 :> EndOfChain) @@ (4 :> EndOfChain)),
           (2 :> DirSector(EmptyFiles(EntriesPerDirSector)))
           @@ (3 :> DirSector(SubSeq(ShortEntry(Name_a, 4, DirectoryAttrib), 1, EntrySize)))
           @@ (4 :> ZeroSector))

Volumes ==
    {FreshVolume(ToU32(0)), FreshVolume(ToU32(3)), FreshVolume(<<0, 0, 128, 0>>),
     SmallVolume, BigVolume, ChainedVolume}

(***************************************************************************)
(* Inputs of the operations                                                *)
(***************************************************************************)
Names == {Name_a, Name_12}
FileNames == {Name_a, Name_f, Name_g}
Paths == {<<>>, <<Name_a>>}

\* the last sector transfer that is made to fail
MaxFailAt == 11

Env(failAt, fill, oob, nullderef, smash) ==
    [failAt |-> failAt, fill |-> fill, oob |-> oob, nullderef |-> nullderef, smash |-> smash]

Quiet == Env(0, 0, 0, "continue", "none")

Envs ==
    {Quiet, Env(0, 15, 5, "crash", "fat_is"), Env(0, 0, EndOfChain, "crash", "none"),
     Env(0, 15, 129, "continue", "fat_is")}
    \cup {Env(k, 0, 0, "continue", "none") : k \in 1..MaxFailAt}

(***************************************************************************)
(* The state machine                                                       *)
(***************************************************************************)
Machine ==
    [disk |-> disk, io |-> <<>>, cached_disk |-> cached_disk,
     cached_partition |-> cached_partition, partition_start |-> partition_start,
     fat_bs |-> fat_bs, fat_is |-> fat_is, smashed |-> smashed, halted |-> halted]

NoCall ==
    [op |-> "none", path |-> <<>>, name |-> <<>>, ret_bool |-> FALSE, ret_list |-> <<>>,
     ret_bytes |-> <<>>, value |-> 0, alloc |-> 0, parent |-> 0, pre |-> <<>>]

\* the state of the driver on volume vol before any call
Unloaded(vol) ==
    [disk |-> (TheDisk :> vol), io |-> <<>>, cached_disk |-> NoCachedId,
     cached_partition |-> NoCachedId, partition_start |-> 0, fat_bs |-> NullPtr,
     fat_is |-> NullPtr, smashed |-> FALSE, halted |-> FALSE]

\* the state of the driver after the metadata of partition p was cached
Loaded(vol, p) == cache_disk_partition(Unloaded(vol), Quiet, TheDisk, p).m

StartsAs(m) ==
    /\ disk = m.disk
    /\ cached_disk = m.cached_disk
    /\ cached_partition = m.cached_partition
    /\ partition_start = m.partition_start
    /\ fat_bs = m.fat_bs
    /\ fat_is = m.fat_is
    /\ smashed = FALSE
    /\ halted = FALSE
    /\ io = <<>>
    /\ last = NoCall
    /\ nops = 0

\* the driver starts with nothing cached
Init == \E v \in Volumes : StartsAs(Unloaded(v))

\* the metadata of the partition was cached by an earlier call
InitFat == \E v \in Volumes, p \in Partitions : StartsAs(Loaded(v, p))

InitEither == Init \/ InitFat

CanCall(limit) == ~halted /\ nops < limit

\* the globals and the device after a call that ended in machine state m
Commit(m, call) ==
    /\ disk' = m.disk
    /\ cached_disk' = m.cached_disk
    /\ cached_partition' = m.cached_partition
    /\ partition_start' = m.partition_start
    /\ fat_bs' = m.fat_bs
    /\ fat_is' = m.fat_is
    /\ smashed' = m.smashed
    /\ halted' = m.halted
    /\ io' = m.io
    /\ last' = [call EXCEPT !.pre = Machine]
    /\ nops' = nops + 1

FreeSize ==
    \E p \in Partitions, e \in Envs :
        /\ CanCall(MaxOps)
        /\ LET r == free_size(Machine, e, TheDisk, p)
           IN Commit(r.m, [NoCall EXCEPT !.op = "free_size", !.ret_bytes = r.ret])

Ls ==
    \E p \in Partitions, path \in Paths, e \in Envs :
        /\ CanCall(MaxOps)
        /\ LET r == ls(Machine, e, TheDisk, p, path)
           IN Commit(r.m, [NoCall EXCEPT !.op = "ls", !.path = path, !.ret_list = r.ret])

ReadFile ==
    \E p \in Partitions, path \in Paths, file \in FileNames, e \in Envs :
        /\ CanCall(MaxOps)
        /\ LET r == read_file(Machine, e, TheDisk, p, path, file)
           IN Commit(r.m, [NoCall EXCEPT !.op = "read_file", !.path = path, !.name = file,
                                         !.ret_bytes = r.ret])

Mkdir ==
    \E p \in Partitions, path \in Paths, directory \in Names, e \in Envs :
        /\ CanCall(MaxOps)
        /\ LET r == mkdir(Machine, e, TheDisk, p, path, directory)
           IN Commit(r.m, [NoCall EXCEPT !.op = "mkdir", !.path = path, !.name = directory,
                                         !.ret_bool = r.ret, !.alloc = r.alloc,
                                         !.parent = r.parent])

Touch ==
    \E p \in Partitions, path \in Paths, file \in Names, e \in Envs :
        /\ CanCall(MaxOps)
        /\ LET r == touch(Machine, e, TheDisk, p, path, file)
           IN Commit(r.m, [NoCall EXCEPT !.op = "touch", !.path = path, !.name = file,
                                         !.ret_bool = r.ret, !.alloc = r.alloc,
                                         !.parent = r.parent])

Next == FreeSize \/ Ls \/ ReadFile \/ Mkdir \/ Touch

Spec == InitEither /\ [][Next]_vars

(***************************************************************************)
(* The creating operations alone, every transfer of which may fail         *)
(***************************************************************************)
CreateMkdir ==
    \E p \in Partitions, path \in Paths, directory \in Names, e \in Envs :
        /\ CanCall(MaxCreates)
        /\ LET r == mkdir(Machine, e, TheDisk, p, path, directory)
           IN Commit(r.m, [NoCall EXCEPT !.op = "mkdir", !.path = path, !.name = directory,
                                         !.ret_bool = r.ret, !.alloc = r.alloc,
                                         !.parent = r.parent])

CreateTouch ==
    \E p \in Partitions, path \in Paths, file \in Names, e \in Envs :
        /\ CanCall(MaxCreates)
        /\ LET r == touch(Machine, e, TheDisk, p, path, file)
           IN Commit(r.m, [NoCall EXCEPT !.op = "touch", !.path = path, !.name = file,
                                         !.ret_bool = r.ret, !.alloc = r.alloc,
                                         !.parent = r.parent])

NextCreate == CreateMkdir \/ CreateTouch

SpecCreate == Init /\ [][NextCreate]_vars

(***************************************************************************)
(* The FAT entry functions called on a volume whose metadata is cached     *)
(***************************************************************************)
FatClusters == {2, 5, 127, 128, 130, 255}

\* end of chain, a successor, and a value with the four reserved bits set
FatValues == {ToU32(EndOfChain), ToU32(5), <<5, 0, 0, 240>>}

WriteFatValue ==
    \E cluster \in FatClusters, value \in FatValues, e \in Envs :
        /\ CanCall(MaxOps)
        /\ LET r == write_fat_value(Machine, e, TheDisk, cluster, value)
           IN Commit(r.m, [NoCall EXCEPT !.op = "write_fat_value", !.alloc = cluster,
                                         !.ret_bytes = value, !.ret_bool = r.ok])

ReadFatValue ==
    \E cluster \in FatClusters, e \in Envs :
        /\ CanCall(MaxOps)
        /\ LET r == read_fat_value(Machine, e, TheDisk, cluster, "fat_next")
           IN Commit(r.m, [NoCall EXCEPT !.op = "read_fat_value", !.alloc = cluster,
                                         !.value = r.val])

NextFat == WriteFatValue \/ ReadFatValue

SpecFat == InitFat /\ [][NextFat]_vars

(***************************************************************************)
(* Reference notions the properties are stated with                        *)
(***************************************************************************)
Now == Machine

Returned == ~halted

Created_ok == last.op \in {"mkdir", "touch"} /\ Returned /\ last.ret_bool

\* the environments without a failing transfer
CalmEnvs == {e \in Envs : e.failAt = 0}

\* what ls returns when called in the current state
ListingNow(e, p, path) == ls(Now, e, TheDisk, p, path).ret

\* the FAT entry of cluster c as the device holds it: sector
\* fat_begin + (c * 4) / 512, entry c % 128
FatOnDisk(mach, c) ==
    Low28(U32Bytes(SectorOf(mach.disk[TheDisk], fat_begin(mach) + (c * FatEntrySize) \div SectorSize),
                   FatEntrySize * (c % EntriesPerSector)))

\* 64-bit value + k, as nine bytes (the last one is the carry out)
RECURSIVE AddFrom(_, _, _)
AddFrom(u, k, carry) ==
    IF k > Len(u) THEN <<carry>>
    ELSE <<(u[k] + carry) % 256>> \o AddFrom(u, k + 1, (u[k] + carry) \div 256)

\* u + n for a number n, exactly: the bytes of n are added from the least
\* significant byte on
AddNumber(u, n) == AddFrom(Splice(u, 0, <<>>), 1, n)

(***************************************************************************)
(* C1: after a touch or mkdir that returned true, ls of the parent holds a *)
(* record with the name that was passed, located at the cluster the        *)
(* allocator returned, flagged directory exactly for mkdir.                *)
(***************************************************************************)
C1_CreatedEntryListed ==
    Created_ok =>
        \A e \in CalmEnvs, p \in Partitions :
            \E k \in 1..Len(ListingNow(e, p, last.path)) :
                LET rec == ListingNow(e, p, last.path)[k]
                IN /\ rec.file_name = last.name
                   /\ rec.location = last.alloc
                   /\ rec.directory = (last.op = "mkdir")

(***************************************************************************)
(* C2: after a successful mkdir(p, n), ls(p ++ [n]) holds exactly the two  *)
(* records "." and "..", both directories, "." located at the new cluster  *)
(* and ".." at the cluster of p.                                           *)
(***************************************************************************)
C2_NewDirectoryHoldsDotAndDotDot ==
    (Created_ok /\ last.op = "mkdir") =>
        \A e \in CalmEnvs, p \in Partitions :
            LET l == ListingNow(e, p, Append(last.path, last.name))
            IN /\ Len(l) = 2
               /\ l[1].file_name = <<46>> /\ l[1].directory /\ l[1].location = last.alloc
               /\ l[2].file_name = <<46, 46>> /\ l[2].directory /\ l[2].location = last.parent

(***************************************************************************)
(* C3: free_size called right after a successful mkdir or touch returns    *)
(* exactly sectors_per_cluster * 512 less than free_size called right      *)
(* before it.                                                              *)
(***************************************************************************)
C3_FreeSizeDropsByOneCluster ==
    Created_ok =>
        \A p \in Partitions :
            AddNumber(free_size(Now, Quiet, TheDisk, p).ret,
                      bs_sectors_per_cluster(fat_bs) * SectorSize)
            = free_size(last.pre, Quiet, TheDisk, p).ret \o <<0>>

(***************************************************************************)
(* C4: LFN round trip: after a successful touch of a name, every record of *)
(* the parent's listing that is located at the file's cluster carries      *)
(* exactly that name, and there is such a record.                          *)
(***************************************************************************)
C4_LongNameRoundTrip ==
    (Created_ok /\ last.op = "touch") =>
        \A e \in CalmEnvs, p \in Partitions :
            LET l == ListingNow(e, p, last.path)
            IN /\ \E k \in 1..Len(l) : l[k].location = last.alloc
               /\ \A k \in 1..Len(l) : l[k].location = last.alloc => l[k].file_name = last.name

(***************************************************************************)
(* C5: after write_fat_value(c, v) succeeded, read_fat_value(c) yields     *)
(* v & 0x0FFFFFFF, the FAT entry of every other cluster is as it was, and  *)
(* the index used into the sector buffer is c % 128, inside the buffer.    *)
(***************************************************************************)
C5_FatEntryWriteThenRead ==
    (last.op = "write_fat_value" /\ Returned /\ last.ret_bool) =>
        /\ \A e \in CalmEnvs :
               read_fat_value(Now, e, TheDisk, last.alloc, "fat_next").val = Low28(last.ret_bytes)
        /\ \A c \in (0..(2 * EntriesPerSector - 1)) \ {last.alloc} :
               FatOnDisk(Now, c) = FatOnDisk(last.pre, c)
        /\ fat_entry_offset(last.alloc) = last.alloc % EntriesPerSector
        /\ fat_entry_offset(last.alloc) < EntriesPerSector

\* the clusters of the chain that starts at c, as the FAT on the device links
\* them: the chain ends at the end-of-chain values, the bad-cluster value and
\* a free entry
RECURSIVE RefChain(_, _, _)
RefChain(mach, c, fuel) ==
    IF fuel = 0 THEN <<>>
    ELSE LET next == FatOnDisk(mach, c)
         IN IF next >= EndOfChain \/ next = BadCluster \/ next = 0 THEN <<c>>
            ELSE <<c>> \o RefChain(mach, next, fuel - 1)

\* the bytes of the first n clusters of a chain
RECURSIVE RefClusters(_, _, _)
RefClusters(mach, chain, n) ==
    IF n = 0 THEN <<>>
    ELSE RefClusters(mach, chain, n - 1)
         \o SectorsOf(mach.disk[TheDisk], cluster_lba(mach, chain[n]),
                      bs_sectors_per_cluster(mach.fat_bs))

\* the first n elements of b, or all of b
Prefix(b, n) == SubSeq(b, 1, IF n < Len(b) THEN n ELSE Len(b))

\* the transfers of the last operation that failed at one of the given steps
FailedAt(steps) == {k \in 1..Len(io) : ~io[k].ok /\ io[k].step \in steps}

AllSteps ==
    {"bs", "fsi", "fat_scan", "parent_read", "parent_write", "fat_read", "fat_write",
     "fsi_write", "newdir_write", "dir_read", "fat_next", "data_read"}

\* the number of data clusters the last read_file read
ClustersRead == Cardinality({k \in 1..Len(io) : io[k].ok /\ io[k].step = "data_read"})

(***************************************************************************)
(* C6: read_file of an existing entry of size s > 0 returns the bytes of   *)
(* the clusters of its chain in chain order, cut to s bytes; when the      *)
(* chain ends or a read fails before that, exactly the bytes of the        *)
(* clusters read so far; empty when the cache cannot be loaded or the      *)
(* name is not in the directory.                                           *)
(***************************************************************************)
C6_ReadFileFollowsChain ==
    (last.op = "read_file" /\ Returned) =>
        \A p \in Partitions :
            LET c == cache_disk_partition(last.pre, Quiet, TheDisk, p)
                l == files_path(c.m, Quiet, TheDisk, last.path)
                k == FirstNamed(l.val, last.name, 1)
                chain == RefChain(c.m, l.val[k].location, MaxChain)
                whole == Prefix(RefClusters(c.m, chain, Len(chain)), l.val[k].size)
                read == Prefix(RefClusters(c.m, chain,
                                                 IF ClustersRead < Len(chain) THEN ClustersRead
                                                 ELSE Len(chain)),
                               l.val[k].size)
            IN IF ~c.ok \/ FailedAt({"bs", "fsi"}) # {} THEN last.ret_bytes = <<>>
               ELSE IF l.m.halted THEN TRUE
               ELSE IF k = 0 THEN last.ret_bytes = <<>>
               ELSE IF l.val[k].size = 0 \/ FailedAt({"dir_read", "fat_next"}) # {} THEN TRUE
               ELSE /\ last.ret_bytes = read
                    /\ FailedAt(AllSteps) = {} => last.ret_bytes = whole

\* the steps of mkdir and touch that the failure policy names
CreateSteps == {"parent_read", "parent_write", "fat_read", "fat_write", "fsi_write", "newdir_write"}

\* the device after the writes of the log that were done, in their order
RECURSIVE WritesApplied(_, _, _)
WritesApplied(dev, log, k) ==
    IF k > Len(log) THEN dev
    ELSE IF log[k].op = "write" /\ log[k].ok
         THEN WritesApplied([l \in (DOMAIN dev) \cup (log[k].lba..(log[k].lba + log[k].count - 1)) |->
                                IF l >= log[k].lba /\ l < log[k].lba + log[k].count
                                THEN SubSeq(log[k].data, (l - log[k].lba) * SectorSize + 1,
                                            (l - log[k].lba + 1) * SectorSize)
                                ELSE dev[l]],
                            log, k + 1)
    ELSE WritesApplied(dev, log, k + 1)

(***************************************************************************)
(* C7: when a transfer of mkdir or touch fails at the parent cluster read  *)
(* or write, the FAT entry write, the FSI write or the new cluster write,  *)
(* the operation returns false at once: the failed transfer is the last    *)
(* one, and the device holds the writes done before it.                    *)
(***************************************************************************)
C7_FailedStepAborts ==
    last.op \in {"mkdir", "touch"} =>
        \A k \in FailedAt(CreateSteps) :
            /\ Returned
            /\ ~last.ret_bool
            /\ k = Len(io)
            /\ \A j \in (k + 1)..Len(io) : io[j].op # "write"
            /\ disk[TheDisk] = WritesApplied(last.pre.disk[TheDisk], io, 1)

\* a mkdir whose FSI write failed after the parent cluster and the FAT sector
\* were written
C7_Witness ==
    /\ last.op = "mkdir"
    /\ Returned /\ ~last.ret_bool
    /\ \E k \in FailedAt({"fsi_write"}) :
           /\ \E j \in 1..(k - 1) : io[j].step = "parent_write" /\ io[j].ok
           /\ \E j \in 1..(k - 1) : io[j].step = "fat_write" /\ io[j].ok
    /\ disk # last.pre.disk

(***************************************************************************)
(* C8: when find_free_entry cannot place the run of entries in the parent  *)
(* directory's cluster, mkdir and touch return false, write no sector and  *)
(* leave the FAT and the free_clusters counter as they were.               *)
(***************************************************************************)
C8_NoSlotFailsWithoutWriting ==
    last.op \in {"mkdir", "touch"} =>
        \A k \in 1..Len(io) :
            (/\ io[k].step = "parent_read" /\ io[k].ok
             /\ find_free_entry(SectorsOf(last.pre.disk[TheDisk], io[k].lba, io[k].count),
                                number_of_entries(last.name)).ptr = NullEntry)
            => /\ Returned
               /\ ~last.ret_bool
               /\ \A j \in 1..Len(io) : io[j].op # "write"
               /\ disk = last.pre.disk
               /\ \A p \in Partitions :
                      is_free_clusters(fat_is)
                      = is_free_clusters(cache_disk_partition(last.pre, Quiet, TheDisk, p).m.fat_is)

(***************************************************************************)
(* C9: ls returns the empty list on any failure: the cache cannot be       *)
(* loaded, a path segment is not found, or the read of a cluster of the    *)
(* directory's chain fails, the first or a later one.                      *)
(***************************************************************************)
C9_LsEmptyOnFailure ==
    (last.op = "ls" /\ Returned) =>
        \A p \in Partitions :
            LET c == cache_disk_partition(last.pre, Quiet, TheDisk, p)
            IN (\/ FailedAt({"bs", "fsi", "dir_read"}) # {}
                \/ ~c.ok
                \/ ~find_cluster_number(c.m, Quiet, TheDisk, last.path).found)
               => last.ret_list = <<>>

\* the sector writes of the last operation, in their order
Writes == SelectSeq(io, LAMBDA ev : ev.op = "write")

\* the place of each write in the order of the steps
WriteRank(step) ==
    CASE step = "parent_write" -> 1
      [] step = "fat_write" -> 2
      [] step = "fsi_write" -> 3
      [] step = "newdir_write" -> 4
      [] OTHER -> 0

\* the first sector of the write that a step of the last operation makes
WritePlace(step) ==
    CASE step = "parent_write" -> cluster_lba(Now, last.parent)
      [] step = "fat_write" -> fat_begin(Now) + (last.alloc * FatEntrySize) \div SectorSize
      [] step = "fsi_write" -> partition_start + bs_fs_information_sector(fat_bs)
      [] step = "newdir_write" -> cluster_lba(Now, last.alloc)
      [] OTHER -> -1

(***************************************************************************)
(* C10: the sector writes of mkdir and touch are made in the order parent  *)
(* directory cluster, FAT entry of the new cluster, FSI sector, and for    *)
(* mkdir the new cluster last: the k-th write of an operation is the write *)
(* of step k, to the sectors of that step, and a successful operation has  *)
(* made all of them.                                                       *)
(***************************************************************************)
C10_WritesInOrder ==
    last.op \in {"mkdir", "touch"} =>
        /\ \A k \in 1..Len(Writes) :
               /\ WriteRank(Writes[k].step) = k
               /\ Writes[k].lba = WritePlace(Writes[k].step)
               /\ Writes[k].step = "newdir_write" => last.op = "mkdir"
        /\ (Returned /\ last.ret_bool) => Len(Writes) = (IF last.op = "mkdir" THEN 4 ELSE 3)

\* a mkdir that returned true after its four writes
C10_Witness ==
    /\ last.op = "mkdir"
    /\ Returned /\ last.ret_bool
    /\ Len(Writes) = 4
    /\ Writes[4].step = "newdir_write" /\ Writes[4].ok

(***************************************************************************)
(* Several (disk, partition) pairs: two devices, the first with two        *)
(* partitions.  The partition at LBA 0 of each device carries the same     *)
(* partition identifier, so that two of the pairs differ in the disk only. *)
(***************************************************************************)
\* operations per behaviour of SpecCache
MaxCacheOps == 3

OtherDisk == 2

\* the start of the second partition of the first device
SecondStart == 200

\* a volume moved to the partition that starts at LBA start
ShiftedVolume(vol, start) == [l \in {k + start : k \in DOMAIN vol} |-> vol[l - start]]

Pairs ==
    {[disk |-> TheDisk, partition |-> [uuid |-> 1, start |-> 0]],
     [disk |-> TheDisk, partition |-> [uuid |-> 2, start |-> SecondStart]],
     [disk |-> OtherDisk, partition |-> [uuid |-> 1, start |-> 0]]}

TwoDisks ==
    (TheDisk :> (FreshVolume(ToU32(3)) @@ ShiftedVolume(FreshVolume(ToU32(5)), SecondStart)))
    @@ (OtherDisk :> SmallVolume)

\* a failure of the boot sector read, of the FSI read, or none; a null
\* dereference that faults or goes on
CacheEnvs ==
    {Quiet, Env(1, 0, 0, "continue", "none"), Env(2, 0, 0, "continue", "none"),
     Env(1, 0, 0, "crash", "none")}

InitCache == StartsAs([Unloaded(<<>>) EXCEPT !.disk = TwoDisks])

Addressed(pair) == [dev |-> pair.disk, part |-> pair.partition]

CacheFreeSize ==
    \E pair \in Pairs, e \in CacheEnvs :
        /\ CanCall(MaxCacheOps)
        /\ LET r == free_size(Machine, e, pair.disk, pair.partition)
           IN Commit(r.m, [NoCall EXCEPT !.op = "free_size", !.ret_bytes = r.ret]
                          @@ Addressed(pair))

CacheLs ==
    \E pair \in Pairs, e \in CacheEnvs :
        /\ CanCall(MaxCacheOps)
        /\ LET r == ls(Machine, e, pair.disk, pair.partition, <<>>)
           IN Commit(r.m, [NoCall EXCEPT !.op = "ls", !.ret_list = r.ret] @@ Addressed(pair))

NextCache == CacheFreeSize \/ CacheLs

SpecCache == InitCache /\ [][NextCache]_vars

\* the last operation was addressed to the pair that was cached
CacheHit ==
    last.pre.cached_disk = last.dev /\ last.pre.cached_partition = last.part.uuid

\* the last operation got past its cache step
PassedCache == ~halted /\ fat_bs # NullPtr /\ fat_is # NullPtr

MetadataReads == {k \in 1..Len(io) : io[k].step \in {"bs", "fsi"}}

(***************************************************************************)
(* C11: the boot sector and the FSI are loaded exactly when the addressed  *)
(* pair of identifiers differs from the cached pair (so on the first       *)
(* operation), an operation addressed to the cached pair reads neither     *)
(* sector, and an operation that passes the cache step works with the boot *)
(* sector, FSI and partition_start of the pair it was called with.         *)
(***************************************************************************)
C11_CacheKeyedByPair ==
    last.op # "none" =>
        /\ CacheHit => MetadataReads = {}
        /\ ~CacheHit => /\ Len(io) >= 1
                        /\ io[1].step = "bs" /\ io[1].lba = last.part.start
                        /\ (io[1].ok /\ ~halted) =>
                               (Len(io) >= 2 /\ io[2].step = "fsi")
        /\ last.pre.cached_disk = NoCachedId => ~CacheHit
        /\ PassedCache =>
               /\ cached_disk = last.dev /\ cached_partition = last.part.uuid
               /\ partition_start = last.part.start
               /\ fat_bs = SectorOf(disk[last.dev], last.part.start)
               /\ fat_is = SectorOf(disk[last.dev],
                                    last.part.start + bs_fs_information_sector(fat_bs))
               /\ last.op = "free_size" =>
                      last.ret_bytes
                      = ZeroExtend64(U32Mul(U32Mul(is_free_clusters(fat_is),
                                                   bs_sectors_per_cluster(fat_bs)),
                                            SectorSize))

\* an operation on a pair other than the loaded one, of the same partition
\* identifier, that reloaded and passed
C11_Witness ==
    /\ last.op = "free_size"
    /\ last.pre.fat_bs # NullPtr /\ last.pre.fat_is # NullPtr
    /\ last.pre.cached_disk # last.dev
    /\ last.pre.cached_partition = last.part.uuid
    /\ PassedCache
    /\ Cardinality(MetadataReads) = 2

\* the failure result of the last operation
FailureResult ==
    CASE last.op = "free_size" -> last.ret_bytes = ZeroExtend64(ToU32(0))
      [] last.op = "ls" -> last.ret_list = <<>>
      [] last.op = "read_file" -> last.ret_bytes = <<>>
      [] OTHER -> ~last.ret_bool

(***************************************************************************)
(* C12: when the read of the boot sector or of the FSI fails during a      *)
(* cache load, neither sector is held in the cache afterwards and the      *)
(* operation returns its failure result without dereferencing a missing    *)
(* boot sector and without another sector access.                          *)
(***************************************************************************)
C12_FailedLoadEmptiesCache ==
    last.op # "none" =>
        \A k \in MetadataReads :
            ~io[k].ok =>
                /\ Returned
                /\ fat_bs = NullPtr /\ fat_is = NullPtr
                /\ k = Len(io)
                /\ FailureResult

(***************************************************************************)
(* The directory entry functions applied to directory cluster buffers      *)
(***************************************************************************)
\* the longest run of slots of one kind at the head of a directory cluster
MaxRun == 3

\* a slot whose bytes are zero but for name[0]
ZeroEntry == [k \in 1..EntrySize |-> 0]

\* a directory cluster of 16 slots: a used slots (name[0] = 'X'), b slots
\* marked 0xE5, c slots with name[0] = 0, d used slots, and the rest filled
\* with slots of name[0] = tail, the last slot having name[0] = 0 unless the
\* tail is made of used slots
DirCluster(a, b, c, d, tail) ==
    Marked(ZeroEntry, 88, a) \o Marked(ZeroEntry, UnusedMark, b) \o Marked(ZeroEntry, 0, c)
    \o Marked(ZeroEntry, 88, d)
    \o Marked(ZeroEntry, tail, EntriesPerDirSector - (a + b + c + d) - 1)
    \o Marked(ZeroEntry, IF tail = 88 THEN 88 ELSE 0, 1)

DirClusters ==
    {DirCluster(a, b, c, d, tail) :
        a \in 0..MaxRun, b \in 0..MaxRun, c \in 0..MaxRun, d \in 0..1, tail \in {0, UnusedMark, 88}}

\* the values of number_of_entries for names of 1 to 22 characters
EntryCounts == {2, 3}

\* a name of n characters: "abc..."
NameOfLen(n) == [k \in 1..n |-> 96 + k]

\* names around the multiples of 11 and 13, and names with a byte above 127
EntryNames ==
    {NameOfLen(n) : n \in {1, 2, 11, 12, 13, 14, 22, 23, 26, 27}}
    \cup {<<200, 65>>, <<65, 129, 66>>}

Applied(call) ==
    /\ last' = call
    /\ nops' = nops + 1
    /\ UNCHANGED <<disk, cached_disk, cached_partition, partition_start, fat_bs, fat_is,
                   smashed, halted, io>>

\* find_free_entry(directory_cluster, entries): name holds the buffer passed,
\* ret_bytes the buffer afterwards, alloc the slot returned
FindFreeEntry ==
    \E directory_cluster \in DirClusters, entries \in EntryCounts :
        /\ CanCall(MaxOps)
        /\ LET r == find_free_entry(directory_cluster, entries)
           IN Applied([NoCall EXCEPT !.op = "find_free_entry", !.name = directory_cluster,
                                     !.value = entries, !.alloc = r.ptr, !.ret_bytes = r.buf])

\* init_entry<true>(entry_ptr, name, cluster) on a cluster buffer: parent holds
\* the slot passed, alloc the slot returned, ret_bytes the buffer afterwards
InitEntry ==
    \E name \in EntryNames, entry_ptr \in {0, 2}, cluster \in {3, 70000} :
        /\ CanCall(MaxOps)
        /\ LET r == init_entry(TRUE, DirCluster(0, 0, 0, 0, 0), entry_ptr, name, cluster)
           IN Applied([NoCall EXCEPT !.op = "init_entry", !.name = name, !.parent = entry_ptr,
                                     !.value = cluster, !.alloc = r.ptr, !.ret_bytes = r.buf])

NextEntry == FindFreeEntry \/ InitEntry

SpecEntry == Init /\ [][NextEntry]_vars

\* the slots of the buffer that the last call left with name[0] = 0
EndSlots == {i \in 0..(NumEntries(last.ret_bytes) - 1) : end_of_directory(last.ret_bytes, i)}

(***************************************************************************)
(* C13: after a find_free_entry call that returns a run, exactly one slot  *)
(* of the buffer has name[0] = 0x00, and it lies at or after the last slot *)
(* of the run.                                                             *)
(***************************************************************************)
C13_OneEndOfDirectory ==
    (last.op = "find_free_entry" /\ last.alloc # NullEntry) =>
        /\ Cardinality(EndSlots) = 1
        /\ \A i \in EndSlots : i >= last.alloc + last.value - 1

\* the reference checksum of an 11-byte name field: rotate right by one bit,
\* then add the byte, in unsigned 8-bit arithmetic
RECURSIVE RefChecksum(_, _, _)
RefChecksum(field, c, sum) ==
    IF c > Len(field) THEN sum
    ELSE RefChecksum(field, c + 1,
                     ((IF sum % 2 = 1 THEN 128 ELSE 0) + (sum \div 2) + field[c]) % 256)

\* the slots of the long entries that the last init_entry wrote
LongSlots == last.parent..(last.alloc - 1)

(***************************************************************************)
(* C14: the alias_checksum stored in every long entry equals the reference *)
(* rotate-right-then-add checksum over the 11-byte name field of the short *)
(* entry that follows.                                                     *)
(***************************************************************************)
C14_AliasChecksumIsReference ==
    last.op = "init_entry" =>
        \A j \in LongSlots :
            At(EntryAt(last.ret_bytes, j), 13)
            = RefChecksum(SubSeq(EntryAt(last.ret_bytes, last.alloc), 1, ShortNameLen), 1, 0)

\* u * f for a value u given as its bytes and a number f below 2^16, with
\* every byte of the product kept
RECURSIVE WideMulFrom(_, _, _, _)
WideMulFrom(u, f, k, carry) ==
    IF k > Len(u) THEN u
    ELSE LET p == u[k] * f + carry
         IN WideMulFrom([u EXCEPT ![k] = p % 256], f, k + 1, p \div 256)

WideMul(u, f) == WideMulFrom(u, f, 1, 0)

(***************************************************************************)
(* C15: free_size returns free_clusters * sectors_per_cluster * 512        *)
(* exactly, as a 64-bit number without wraparound modulo 2^32, and 0 when  *)
(* the cache cannot be populated.                                          *)
(***************************************************************************)
C15_FreeSizeExact ==
    (last.op = "free_size" /\ Returned) =>
        IF PassedCache
        THEN last.ret_bytes
             = WideMul(WideMul(ZeroExtend64(is_free_clusters(fat_is)),
                               bs_sectors_per_cluster(fat_bs)),
                       SectorSize)
        ELSE last.ret_bytes = ZeroExtend64(ToU32(0))

(***************************************************************************)
(* find_free_cluster called on volumes of one or two sectors per cluster   *)
(***************************************************************************)
\* the clusters 2 .. n are in use (none for n = 1), the others are free
UsedUpTo == {1, 2, 3, 5, 127, 128, 129, 130, 200, 255}

ClusterSizes == {1, 2}

\* the FAT of two sectors follows the two reserved sectors; the root
\* directory (cluster 2) starts at the first data sector
ScanVolume(spc, n, root) ==
    (0 :> BootSector(spc, 2, 1, 0, 2, 2, 1)) @@ (1 :> FsiSector(ToU32(100)))
    @@ (2 :> FatSector(FatOf(ReservedFat @@ [c \in 2..n |-> EndOfChain]), 0))
    @@ (3 :> FatSector(FatOf(ReservedFat @@ [c \in 2..n |-> EndOfChain]), 1))
    @@ (4 :> root)

ScanVolumes ==
    {ScanVolume(spc, n, root) :
        spc \in ClusterSizes, n \in UsedUpTo,
        root \in {ZeroSector, DirSector(FileEntry(Name_f, 3, 1000))}}

ScanEnvs == {Quiet, Env(1, 0, 0, "continue", "none"), Env(2, 0, 0, "continue", "none")}

InitScan == \E v \in ScanVolumes, p \in Partitions : StartsAs(Loaded(v, p))

FindFreeCluster ==
    \E e \in ScanEnvs :
        /\ CanCall(MaxOps)
        /\ LET r == find_free_cluster(Machine, e, TheDisk)
           IN Commit(r.m, [NoCall EXCEPT !.op = "find_free_cluster", !.value = r.val])

NextScan == FindFreeCluster

SpecScan == InitScan /\ [][NextScan]_vars

\* the clusters that have an entry in the FAT, and those whose entry on the
\* device is free
ClustersOfFat == 2..(fat_size(Now) * EntriesPerSector - 1)

FreeInFat == {c \in ClustersOfFat : FatOnDisk(Now, c) = 0}

ScanFailed == \E k \in 1..Len(io) : ~io[k].ok

(***************************************************************************)
(* C16: for every FAT content and every sectors_per_cluster >= 1,          *)
(* find_free_cluster reads the FAT sectors consecutively from the first    *)
(* one and returns the lowest cluster >= 2 whose FAT entry is 0; it        *)
(* returns 0 only when there is none or a sector read fails, so every      *)
(* non-zero cluster it returns is free in the FAT.                         *)
(***************************************************************************)
C16_LowestFreeCluster ==
    (last.op = "find_free_cluster" /\ Returned) =>
        /\ \A k \in 1..Len(io) : io[k].lba = fat_begin(Now) + (k - 1)
        /\ last.value # 0 =>
               /\ last.value \in FreeInFat
               /\ \A c \in FreeInFat : last.value <= c
        /\ last.value = 0 => (FreeInFat = {} \/ ScanFailed)

(***************************************************************************)
(* Series of creating operations without a failing transfer                *)
(***************************************************************************)
MaxSeries == 2

SeriesVolumes == {FreshVolume(ToU32(3)), BigVolume}

InitSeries == \E v \in SeriesVolumes : StartsAs(Unloaded(v))

SeriesMkdir ==
    \E p \in Partitions, path \in Paths, directory \in Names, e \in CalmEnvs :
        /\ CanCall(MaxSeries)
        /\ LET r == mkdir(Machine, e, TheDisk, p, path, directory)
           IN Commit(r.m, [NoCall EXCEPT !.op = "mkdir", !.path = path, !.name = directory,
                                         !.ret_bool = r.ret, !.alloc = r.alloc,
                                         !.parent = r.parent])

SeriesTouch ==
    \E p \in Partitions, path \in Paths, file \in Names, e \in CalmEnvs :
        /\ CanCall(MaxSeries)
        /\ LET r == touch(Machine, e, TheDisk, p, path, file)
           IN Commit(r.m, [NoCall EXCEPT !.op = "touch", !.path = path, !.name = file,
                                         !.ret_bool = r.ret, !.alloc = r.alloc,
                                         !.parent = r.parent])

NextSeries == SeriesMkdir \/ SeriesTouch

SpecSeries == InitSeries /\ [][NextSeries]_vars

\* the driver as it is now, on the device as it was before the last call
Before == [Now EXCEPT !.disk = last.pre.disk]

\* the starting clusters of the short entries held by the first sector of a
\* directory cluster on the device
StartsIn(mach, cluster) ==
    LET buf == SectorOf(mach.disk[TheDisk], cluster_lba(mach, cluster))
    IN {entry_cluster_high(EntryAt(buf, i)) * 65536 + entry_cluster_low(EntryAt(buf, i)) :
            i \in {j \in 0..(EntriesPerDirSector - 1) :
                      /\ entry_name0(buf, j) \notin {0, UnusedMark}
                      /\ ~is_long_name(EntryAt(buf, j))}}

RootCluster == bs_root_directory_cluster_start(fat_bs)

(***************************************************************************)
(* C17: in any sequence of successful touch and mkdir operations on one    *)
(* volume, also with cluster numbers of 128 or more, each operation        *)
(* allocates a cluster whose FAT entry was 0 and that no directory entry   *)
(* made earlier starts at, and afterwards the FAT entry of the allocated   *)
(* cluster reads back as end-of-chain.                                     *)
(***************************************************************************)
C17_AllocationsDistinct ==
    Created_ok =>
        /\ FatOnDisk(Before, last.alloc) = 0
        /\ last.alloc \notin StartsIn(Before, RootCluster)
        /\ last.alloc \notin StartsIn(Before, last.parent)
        /\ FatOnDisk(Now, last.alloc) = EndOfChain

(***************************************************************************)
(* files(disk, cluster) called on root directories made of a few slots     *)
(***************************************************************************)
\* the slots a directory is made of: two short entries, the long entry of a
\* name of 12 characters, a short entry marked 0xE5, and the end marker
SlotKinds ==
    {FileEntry(Name_f, 3, 1000), FileEntry(Name_g, 5, 600), LongEntry(Name_12, 0, 1),
     [FileEntry(Name_g, 5, 600) EXCEPT ![1] = UnusedMark], ZeroEntry}

ListVolumes ==
    {Volume(ToU32(100), FatOf(ReservedFat @@ (2 :> EndOfChain)),
            (2 :> DirSector(s1 \o s2 \o s3))) :
        s1 \in SlotKinds, s2 \in SlotKinds, s3 \in SlotKinds}

ListEnvs == {Quiet, Env(1, 0, 0, "continue", "none")}

InitList == \E v \in ListVolumes, p \in Partitions : StartsAs(Loaded(v, p))

ListFiles ==
    \E e \in ListEnvs :
        /\ CanCall(MaxOps)
        /\ LET r == files(Machine, e, TheDisk, RootCluster)
           IN Commit(r.m, [NoCall EXCEPT !.op = "files", !.value = RootCluster,
                                         !.ret_list = r.val])

NextList == ListFiles

SpecList == InitList /\ [][NextList]_vars

\* the listing loop in which a slot with name[0] = 0 stops the traversal and
\* a slot with name[0] = 0xE5 emits nothing and drops the long name
\* accumulated so far
RECURSIVE RefScan(_, _, _, _, _)
RefScan(st, e, cluster, k, spc) ==
    IF k >= NumEntries(cluster) \/ st.halted THEN st
    ELSE IF entry_name0(cluster, k) = 0 THEN [st EXCEPT !.end_reached = TRUE]
    ELSE IF entry_name0(cluster, k) = UnusedMark
         THEN RefScan([st EXCEPT !.long_name = FALSE, !.i = 0], e, cluster, k + 1, spc)
    ELSE IF is_long_name(EntryAt(cluster, k))
         THEN RefScan(LongEntryStep(st, EntryAt(cluster, k)), e, cluster, k + 1, spc)
    ELSE RefScan(ShortEntryStep(st, e, EntryAt(cluster, k), spc), e, cluster, k + 1, spc)

ListedCluster == SectorOf(disk[TheDisk], cluster_lba(Now, last.value))

ListRead == Len(io) > 0 /\ io[1].ok

(***************************************************************************)
(* C18: in the listing, a slot with name[0] = 0x00 stops the traversal, so *)
(* no record is emitted for a slot at or after it; a slot with             *)
(* name[0] = 0xE5 emits no record and resets the long-name accumulation,   *)
(* so a short entry after long entries and a 0xE5 slot is named from its   *)
(* own 11-byte name field.                                                 *)
(***************************************************************************)
C18_ListingSkipsAndStops ==
    (last.op = "files" /\ Returned /\ ListRead) =>
        last.ret_list
        = RefScan(ListingStart, Quiet, ListedCluster, 0, bs_sectors_per_cluster(fat_bs)).files

\* ceil(len / 13): the long entries a name of len characters fills
RefSequences(len) == (len + CharsPerLongEntry - 1) \div CharsPerLongEntry

\* code unit t (from 0) of the long name: the byte of the name, or 0xFFFF
\* past its end
RefUnit(name, t) == IF t < Len(name) THEN <<name[t + 1], 0>> ELSE <<255, 255>>

(***************************************************************************)
(* C19: for a name of length len the long entries written are exactly      *)
(* k = ceil(len / 13) slots immediately before the short entry, numbered   *)
(* 1..k in slot order with bit 0x40 only on number k, each with attrib     *)
(* 0x0F and starting_cluster 0, entry j holding the name bytes             *)
(* 13*(j-1) .. 13*j-1 one per code unit, and every code unit past the end  *)
(* of the name being 0xFFFF.                                               *)
(***************************************************************************)
C19_LongEntriesLayout ==
    last.op = "init_entry" =>
        LET k == RefSequences(Len(last.name))
        IN /\ last.alloc - last.parent = k
           /\ \A j \in 1..k :
                  LET ent == EntryAt(last.ret_bytes, last.parent + j - 1)
                  IN /\ l_sequence_number(ent) = (IF j = k THEN j + LastLongMask ELSE j)
                     /\ entry_attrib(ent) = LongNameAttrib
                     /\ entry_cluster_low(ent) = 0
                     /\ \A t \in 1..CharsPerLongEntry :
                            LongUnits(ent)[t]
                            = RefUnit(last.name, CharsPerLongEntry * (j - 1) + t - 1)

\* the driver on the device as it was after the first n transfers of the
\* last operation
AfterTransfers(n) ==
    [Now EXCEPT !.disk = (TheDisk :> WritesApplied(last.pre.disk[TheDisk], SubSeq(io, 1, n), 1))]

(***************************************************************************)
(* C20: in every on-disk state during or after a mkdir or touch (between   *)
(* any two of its sector writes, and after an abort at a failing write),   *)
(* every directory entry present in the parent directory's cluster on disk *)
(* has a starting cluster whose FAT entry on disk is non-zero.             *)
(***************************************************************************)
C20_NoDanglingReference ==
    (last.op \in {"mkdir", "touch"} /\ last.alloc # 0 /\ fat_bs # NullPtr) =>
        \A n \in 0..Len(io) :
            \A c \in StartsIn(AfterTransfers(n), last.parent) :
                FatOnDisk(AfterTransfers(n), c) # 0

(***************************************************************************)
(* files(disk, cluster) called on root directories holding one short entry *)
(* with each value of the attribute byte but 0x0F                          *)
(***************************************************************************)
AttribValues == (0..63) \ {LongNameAttrib}

AttribVolumes ==
    {Volume(ToU32(100), FatOf(ReservedFat @@ (2 :> EndOfChain) @@ (3 :> EndOfChain)),
            (2 :> DirSector(SubSeq(ShortEntry(Name_f, 3, a), 1, EntrySize)))) :
        a \in AttribValues}

InitAttrib == \E v \in AttribVolumes, p \in Partitions : StartsAs(Loaded(v, p))

SpecAttrib == InitAttrib /\ [][NextList]_vars

\* the attribute byte of the short entry in slot 0 of the cluster listed
ListedAttrib == entry_attrib(EntryAt(ListedCluster, 0))

(***************************************************************************)
(* C23: for every short entry listed, hidden is true iff bit 1 (0x02) of   *)
(* the attribute byte is set, system iff bit 2 (0x04) is set and directory *)
(* iff bit 4 (0x10) is set; the read-only bit (bit 0) affects none.        *)
(***************************************************************************)
C23_AttributeBits ==
    (last.op = "files" /\ Returned /\ ListRead) =>
        /\ Len(last.ret_list) = 1
        /\ last.ret_list[1].hidden = BitSet(ListedAttrib, 2)
        /\ last.ret_list[1].system = BitSet(ListedAttrib, 4)
        /\ last.ret_list[1].directory = BitSet(ListedAttrib, 16)

(***************************************************************************)
(* find_cluster_number called on volumes with a tree of directories        *)
(***************************************************************************)
\* an entry of the given name and cluster: a directory, or a regular file
TreeEntry(name, cluster, directory) ==
    IF directory THEN SubSeq(ShortEntry(name, cluster, DirectoryAttrib), 1, EntrySize)
    ELSE FileEntry(name, cluster, 600)

\* the root holds a (cluster 3), f (a file, cluster 5) and g (cluster 4);
\* cluster 3 holds a (a directory, cluster 6) and f (a file, cluster 7);
\* cluster 4 holds f (a file, cluster 6); a and g of the root are
\* directories or regular files
TreeVolume(a_is_dir, g_is_dir) ==
    Volume(ToU32(100),
           FatOf(ReservedFat @@ [c \in 2..7 |-> EndOfChain]),
           (2 :> DirSector(TreeEntry(Name_a, 3, a_is_dir) \o TreeEntry(Name_f, 5, FALSE)
                           \o TreeEntry(Name_g, 4, g_is_dir)))
           @@ (3 :> DirSector(TreeEntry(Name_a, 6, TRUE) \o TreeEntry(Name_f, 7, FALSE)))
           @@ (4 :> DirSector(TreeEntry(Name_f, 6, FALSE)))
           @@ (5 :> DataSector(5)) @@ (6 :> ZeroSector) @@ (7 :> DataSector(7)))

TreeVolumes == {TreeVolume(a_is_dir, g_is_dir) : a_is_dir \in BOOLEAN, g_is_dir \in BOOLEAN}

TreePaths ==
    {<<>>, <<Name_a>>, <<Name_f>>, <<Name_g>>, <<Name_12>>,
     <<Name_a, Name_f>>, <<Name_a, Name_a>>, <<Name_a, Name_g>>, <<Name_g, Name_f>>,
     <<Name_f, Name_f>>, <<Name_g, Name_a>>, <<Name_a, Name_a, Name_f>>}

TreeEnvs == {Quiet} \cup {Env(k, 0, 0, "continue", "none") : k \in 1..3}

InitTree == \E v \in TreeVolumes, p \in Partitions : StartsAs(Loaded(v, p))

FindClusterNumber ==
    \E path \in TreePaths, e \in TreeEnvs :
        /\ CanCall(MaxOps)
        /\ LET r == find_cluster_number(Machine, e, TheDisk, path)
           IN Commit(r.m, [NoCall EXCEPT !.op = "find_cluster_number", !.path = path,
                                         !.ret_bool = r.found, !.value = r.val])

NextTree == FindClusterNumber

SpecTree == InitTree /\ [][NextTree]_vars

\* the records of the directory at a cluster, read without a failure
RefListing(cluster) == files(Now, Quiet, TheDisk, cluster).val

\* the records that a segment matches: the tail matches an entry of either
\* kind, the other segments directories only
RefMatches(cluster, segment, tail) ==
    {k \in 1..Len(RefListing(cluster)) :
        /\ RefListing(cluster)[k].file_name = segment
        /\ (tail \/ RefListing(cluster)[k].directory)}

RefFirst(cluster, segment, tail) ==
    CHOOSE k \in RefMatches(cluster, segment, tail) :
        \A j \in RefMatches(cluster, segment, tail) : k <= j

RECURSIVE RefWalk(_, _, _)
RefWalk(path, i, cluster) ==
    IF RefMatches(cluster, path[i], i = Len(path)) = {} THEN [found |-> FALSE, val |-> 0]
    ELSE IF i = Len(path)
         THEN [found |-> TRUE,
               val |-> RefListing(cluster)[RefFirst(cluster, path[i], TRUE)].location]
    ELSE RefWalk(path, i + 1, RefListing(cluster)[RefFirst(cluster, path[i], FALSE)].location)

RefResolve(path) ==
    IF path = <<>> THEN [found |-> TRUE, val |-> RootCluster] ELSE RefWalk(path, 1, RootCluster)

AllTransfersDone == \A k \in 1..Len(io) : io[k].ok

(***************************************************************************)
(* C24: find_cluster_number returns the root directory cluster for an      *)
(* empty path; otherwise it walks the segments from the root, matching a   *)
(* non-tail segment against directories only and the tail against an entry *)
(* of either kind, and returns the tail entry's starting cluster; it       *)
(* returns not-found when a segment has no matching entry (a non-tail      *)
(* segment naming only a regular file is not-found).                       *)
(***************************************************************************)
C24_PathResolution ==
    (last.op = "find_cluster_number" /\ Returned /\ AllTransfersDone) =>
        [found |-> last.ret_bool, val |-> last.value] = RefResolve(last.path)

\* a path of two segments resolved through the directory a to the file f,
\* and the same call not-found where a is a regular file
C24_Witness ==
    /\ last.op = "find_cluster_number"
    /\ AllTransfersDone
    /\ last.path = <<Name_a, Name_f>>
    /\ last.ret_bool
    /\ last.value = 7
    /\ Len(io) = 2

\* the free_clusters field of the FS information sector on the device
FreeClustersOnDisk ==
    is_free_clusters(SectorOf(disk[TheDisk],
                              partition_start + bs_fs_information_sector(fat_bs)))

(***************************************************************************)
(* C22: after any operation on the cached partition, successful or not     *)
(* (also a mkdir or touch aborted by a failing FSI write or new-cluster    *)
(* write), the free_clusters value of the in-memory cache equals the one   *)
(* stored in the FSI sector on disk.                                       *)
(***************************************************************************)
C22_FreeClustersWrittenThrough ==
    (last.op \in {"mkdir", "touch"} /\ PassedCache) =>
        is_free_clusters(fat_is) = FreeClustersOnDisk

\* ls of the directory of the last operation, before and after it, read
\* without a failure
ListedBefore == files_path(Before, Quiet, TheDisk, last.path).val

ListedAfter == files_path(Now, Quiet, TheDisk, last.path).val

\* the parent directory cluster on the device before and after
ParentBefore == SectorOf(last.pre.disk[TheDisk], cluster_lba(Now, last.parent))

ParentAfter == SectorOf(disk[TheDisk], cluster_lba(Now, last.parent))

SlotFree(buf, i) == entry_name0(buf, i) \in {0, UnusedMark}

ChangedSlots ==
    {i \in 0..(EntriesPerDirSector - 1) : EntryAt(ParentBefore, i) # EntryAt(ParentAfter, i)}

\* the changed slots that hold an entry afterwards, and those that hold a
\* marker
RunSlots == {i \in ChangedSlots : ~SlotFree(ParentAfter, i)}

MarkerSlots == ChangedSlots \ RunSlots

(***************************************************************************)
(* C21: a successful touch or mkdir in directory p adds exactly one record *)
(* to ls(p) and leaves the records ls(p) returned before unchanged and in  *)
(* their order; the slots of the parent cluster that change are the run of *)
(* the new entry and the old and new end-of-directory marker slots, and no *)
(* slot that was in use is overwritten.                                    *)
(***************************************************************************)
C21_CreateAddsOneRecord ==
    Created_ok =>
        /\ Len(ListedAfter) = Len(ListedBefore) + 1
        /\ \E k \in 1..Len(ListedAfter) :
               ListedBefore
               = SubSeq(ListedAfter, 1, k - 1) \o SubSeq(ListedAfter, k + 1, Len(ListedAfter))
        /\ \A i \in ChangedSlots : SlotFree(ParentBefore, i)
        /\ Cardinality(RunSlots) = number_of_entries(last.name)
        /\ \A i \in RunSlots, j \in RunSlots : \A x \in i..j : x \in RunSlots
        /\ Cardinality(MarkerSlots) <= 2
        /\ \A i \in MarkerSlots :
               SubSeq(EntryAt(ParentBefore, i), 2, EntrySize)
               = SubSeq(EntryAt(ParentAfter, i), 2, EntrySize)

====
